---- MODULE Spec2Model ----
(***************************************************************************)
(* Model of tap.py, the release-reconciliation engine of a Homebrew tap:   *)
(* for every formula of the configuration it resolves the latest release,  *)
(* compares it with the version declared in Formula/<name>.rb, and when    *)
(* they differ fetches four archives on a pool of four workers, renders    *)
(* the formula from FORMULA_TEMPLATE and writes it; at the end it commits  *)
(* and pushes once.                                                        *)
(*                                                                         *)
(* Python strings are sequences of one-character strings.  Values that are *)
(* not strings (None, a raised exception) are one-element sequences whose  *)
(* element is a word, so they differ from every string.                    *)
(***************************************************************************)
EXTENDS Integers, Sequences, FiniteSets, TLC

\* ------------------------------------------------------------------ bounds
\* the number of runs of the process over the same working tree
MaxRuns == 2
\* the longest version string and release tag of the pure-function checks
MaxVerLen == 2

\* ------------------------------------------------------- non-string values
None == <<"None">>
ValueError == <<"ValueError">>
IndexError == <<"IndexError">>
StopIteration == <<"StopIteration">>
Exceptions == {ValueError, IndexError, StopIteration}

\* ------------------------------------------------------- str operations
RECURSIVE Str(_)
\* the characters of s as one token (used inside symbolic digests)
Str(s) == IF s = <<>> THEN "" ELSE Head(s) \o Str(Tail(s))

RECURSIVE Concat(_)
\* ''.join(ss)
Concat(ss) == IF ss = <<>> THEN <<>> ELSE Head(ss) \o Concat(Tail(ss))

RECURSIVE Join(_, _)
\* sep.join(ss)
Join(sep, ss) ==
  IF ss = <<>> THEN <<>>
  ELSE IF Len(ss) = 1 THEN ss[1]
  ELSE ss[1] \o sep \o Join(sep, Tail(ss))

\* the positions of character c in s
Positions(s, c) == {p \in 1..Len(s) : s[p] = c}

\* the k-th smallest element of a finite set of integers
Nth(P, k) == CHOOSE p \in P : Cardinality({r \in P : r <= p}) = k

\* s.split(c) for a one-character separator c
Split(s, c) ==
  LET P == Positions(s, c)
      n == Cardinality(P)
      lo(k) == IF k = 1 THEN 1 ELSE Nth(P, k - 1) + 1
      hi(k) == IF k = n + 1 THEN Len(s) ELSE Nth(P, k) - 1
  IN  [k \in 1..(n + 1) |-> SubSeq(s, lo(k), hi(k))]

\* s.splitlines(), for text whose only line boundary is "\n"
splitlines(s) ==
  LET parts == Split(s, "\n")
  IN  IF parts[Len(parts)] = <<>> THEN SubSeq(parts, 1, Len(parts) - 1) ELSE parts

Whitespace == {" ", "\t", "\n", "\r"}

\* s.lstrip(chars)
lstrip(s, chars) ==
  LET keep == {p \in 1..Len(s) : s[p] \notin chars}
  IN  IF keep = {} THEN <<>>
      ELSE SubSeq(s, CHOOSE p \in keep : \A r \in keep : p <= r, Len(s))

\* s.rstrip(chars)
rstrip(s, chars) ==
  LET keep == {p \in 1..Len(s) : s[p] \notin chars}
  IN  IF keep = {} THEN <<>>
      ELSE SubSeq(s, 1, CHOOSE p \in keep : \A r \in keep : r <= p)

\* s.strip()
strip(s) == rstrip(lstrip(s, Whitespace), Whitespace)

\* s.startswith(prefix)
startswith(s, prefix) ==
  /\ Len(s) >= Len(prefix)
  /\ SubSeq(s, 1, Len(prefix)) = prefix

\* s.endswith(suffix)
endswith(s, suffix) ==
  /\ Len(s) >= Len(suffix)
  /\ SubSeq(s, Len(s) - Len(suffix) + 1, Len(s)) = suffix

LowerCase == <<"a", "b", "c", "d", "e", "f", "g", "h", "i", "j", "k", "l", "m", "n", "o", "p", "q", "r", "s", "t", "u", "v", "w", "x", "y", "z">>
UpperCase == <<"A", "B", "C", "D", "E", "F", "G", "H", "I", "J", "K", "L", "M", "N", "O", "P", "Q", "R", "S", "T", "U", "V", "W", "X", "Y", "Z">>
Digits == <<"0", "1", "2", "3", "4", "5", "6", "7", "8", "9">>
Range(f) == {f[x] : x \in DOMAIN f}

\* c.upper() and c.lower() of one character
Upper(c) == IF c \in Range(LowerCase) THEN UpperCase[CHOOSE k \in 1..26 : LowerCase[k] = c] ELSE c
Lower(c) == IF c \in Range(UpperCase) THEN LowerCase[CHOOSE k \in 1..26 : UpperCase[k] = c] ELSE c

\* the characters the pattern [\W_]+ does not match: letters and digits
IsWordChar(c) == c \in Range(LowerCase) \cup Range(UpperCase) \cup Range(Digits)

\* to_pascal_case: split on runs of [\W_], capitalize each word, concatenate
to_pascal_case(s) ==
  LET ch(p) == IF ~IsWordChar(s[p]) THEN <<>>
               ELSE IF p = 1 \/ ~IsWordChar(s[p - 1]) THEN <<Upper(s[p])>>
               ELSE <<Lower(s[p])>>
  IN  Concat([p \in 1..Len(s) |-> ch(p)])

\* ------------------------------------------------------- str.format
\* A format string is a sequence of segments: literal text and {name} fields.
Lit(s) == [k |-> "lit", s |-> s, n |-> ""]
Ph(n) == [k |-> "ph", s |-> <<>>, n |-> n]

\* the two macOS digests passed under each other's name
Format_swapped(fmt, args) ==
  LET other(n) == IF n = "mac_aarch64_sha256" THEN "mac_x86_64_sha256"
                  ELSE IF n = "mac_x86_64_sha256" THEN "mac_aarch64_sha256" ELSE n
  IN  Concat([j \in 1..Len(fmt) |->
                IF fmt[j].k = "lit" THEN fmt[j].s ELSE args[other(fmt[j].n)]])

\* fmt.format(**args)
Format(fmt, args) ==
  Concat([j \in 1..Len(fmt) |-> IF fmt[j].k = "lit" THEN fmt[j].s ELSE args[fmt[j].n]])

FORMULA_TEMPLATE ==
  << Lit(<<"#", " ", "f", "r", "o", "z", "e", "n", "_", "s", "t", "r", "i", "n", "g", "_", "l", "i", "t", "e", "r", "a", "l", ":", " ", "t", "r", "u", "e", "\n", "\n", "#", " ">>),
     Ph("desc"),
     Lit(<<"\n", "c", "l", "a", "s", "s", " ">>),
     Ph("cname"),
     Lit(<<" ", "<", " ", "F", "o", "r", "m", "u", "l", "a", "\n", " ", " ", "d", "e", "s", "c", " ", "\"">>),
     Ph("desc"),
     Lit(<<"\"", "\n", " ", " ", "h", "o", "m", "e", "p", "a", "g", "e", " ", "\"">>),
     Ph("homepage"),
     Lit(<<"\"", "\n", " ", " ", "v", "e", "r", "s", "i", "o", "n", " ", "\"">>),
     Ph("version"),
     Lit(<<"\"", "\n", " ", " ", "l", "i", "c", "e", "n", "s", "e", " ", "\"">>),
     Ph("license"),
     Lit(<<"\"", "\n">>),
     Ph("depsfmt"),
     Lit(<<"\n", " ", " ", "i", "f", " ", "O", "S", ".", "m", "a", "c", "?", "\n", " ", " ", " ", " ", "o", "n", "_", "i", "n", "t", "e", "l", " ", "d", "o", "\n", " ", " ", " ", " ", " ", " ", "u", "r", "l", " ", "\"">>),
     Ph("mac_x86_64_url"),
     Lit(<<"\"", "\n", " ", " ", " ", " ", " ", " ", "s", "h", "a", "2", "5", "6", " ", "\"">>),
     Ph("mac_x86_64_sha256"),
     Lit(<<"\"", "\n", " ", " ", " ", " ", "e", "n", "d", "\n", " ", " ", " ", " ", "o", "n", "_", "a", "r", "m", " ", "d", "o", "\n", " ", " ", " ", " ", " ", " ", "u", "r", "l", " ", "\"">>),
     Ph("mac_aarch64_url"),
     Lit(<<"\"", "\n", " ", " ", " ", " ", " ", " ", "s", "h", "a", "2", "5", "6", " ", "\"">>),
     Ph("mac_aarch64_sha256"),
     Lit(<<"\"", "\n", " ", " ", " ", " ", "e", "n", "d", "\n", " ", " ", "e", "l", "s", "i", "f", " ", "O", "S", ".", "l", "i", "n", "u", "x", "?", "\n", " ", " ", " ", " ", "o", "n", "_", "i", "n", "t", "e", "l", " ", "d", "o", "\n", " ", " ", " ", " ", " ", " ", "u", "r", "l", " ", "\"">>),
     Ph("linux_x86_64_url"),
     Lit(<<"\"", "\n", " ", " ", " ", " ", " ", " ", "s", "h", "a", "2", "5", "6", " ", "\"">>),
     Ph("linux_x86_64_sha256"),
     Lit(<<"\"", "\n", " ", " ", " ", " ", "e", "n", "d", "\n", " ", " ", " ", " ", "o", "n", "_", "a", "r", "m", " ", "d", "o", "\n", " ", " ", " ", " ", " ", " ", "u", "r", "l", " ", "\"">>),
     Ph("linux_aarch64_url"),
     Lit(<<"\"", "\n", " ", " ", " ", " ", " ", " ", "s", "h", "a", "2", "5", "6", " ", "\"">>),
     Ph("linux_aarch64_sha256"),
     Lit(<<"\"", "\n", " ", " ", " ", " ", "e", "n", "d", "\n", " ", " ", "e", "n", "d", "\n", "\n", " ", " ", "d", "e", "f", " ", "i", "n", "s", "t", "a", "l", "l">>),
     Ph("binsfmt"),
     Ph("mansfmt"),
     Ph("completionsfmt"),
     Lit(<<"\n", " ", " ", "e", "n", "d", "\n", "e", "n", "d", "\n">>) >>

S_version == <<"v", "e", "r", "s", "i", "o", "n">>
S_darwin == <<"d", "a", "r", "w", "i", "n">>
S_optional == <<"o", "p", "t", "i", "o", "n", "a", "l">>
S_recommended == <<"r", "e", "c", "o", "m", "m", "e", "n", "d", "e", "d">>
S_zsh == <<"z", "s", "h">>
S_tar_xz == <<"t", "a", "r", ".", "x", "z">>
DefaultArchiveFmt == <<Ph("name"), Lit(<<"-">>), Ph("arch"), Lit(<<".">>), Ph("ext")>>

\* the four architecture triples of update_formula, by slot, in submit order
Slots == <<"mac_aarch64", "mac_x86_64", "linux_aarch64", "linux_x86_64">>
SlotSet == Range(Slots)
Arch(slot) ==
  CASE slot = "mac_aarch64" -> <<"a", "a", "r", "c", "h", "6", "4", "-", "a", "p", "p", "l", "e", "-", "d", "a", "r", "w", "i", "n">>
    [] slot = "mac_x86_64" -> <<"x", "8", "6", "_", "6", "4", "-", "a", "p", "p", "l", "e", "-", "d", "a", "r", "w", "i", "n">>
    [] slot = "linux_aarch64" -> <<"a", "a", "r", "c", "h", "6", "4", "-", "u", "n", "k", "n", "o", "w", "n", "-", "l", "i", "n", "u", "x", "-", "m", "u", "s", "l">>
    [] slot = "linux_x86_64" -> <<"x", "8", "6", "_", "6", "4", "-", "u", "n", "k", "n", "o", "w", "n", "-", "l", "i", "n", "u", "x", "-", "m", "u", "s", "l">>

\* ------------------------------------------------------- Man, Completion
\* Man.parse: the section is the last character, read as an integer
Man_parse(s) ==
  IF s # <<>> /\ s[Len(s)] \in Range(Digits)
  THEN [section |-> (CHOOSE k \in 1..10 : Digits[k] = s[Len(s)]) - 1, path |-> s]
  ELSE ValueError

\* Man.format
Man_format(m) == <<"m", "a", "n">> \o <<Digits[m.section + 1]>> \o <<".", "i", "n", "s", "t", "a", "l", "l", " ", "\"">> \o m.path \o <<"\"">>

\* os.path.splitext(s)[1]: from the last dot of the last path component,
\* leading dots of that component not counted
splitext_ext(s) ==
  LET slashes == Positions(s, "/")
      base == IF slashes = {} THEN 1 ELSE Nth(slashes, Cardinality(slashes)) + 1
      dots == {p \in Positions(s, ".") : p >= base /\ \E r \in base..(p - 1) : s[r] # "."}
  IN  IF dots = {} THEN <<>> ELSE SubSeq(s, Nth(dots, Cardinality(dots)), Len(s))

\* Completion.parse
Completion_parse(s) ==
  LET ext == splitext_ext(s)
  IN  [shell |-> IF ext = <<>> THEN S_zsh ELSE lstrip(ext, {"."}), path |-> s]

\* Completion.format
Completion_format(c) == c.shell \o <<"_", "c", "o", "m", "p", "l", "e", "t", "i", "o", "n", ".", "i", "n", "s", "t", "a", "l", "l", " ", "\"">> \o c.path \o <<"\"">>

\* ------------------------------------------------------- Formula
\* Formula.from_dict for a table of .tap.toml
Formula_from_dict(repo, homepage, desc, license, bins, mans, deps, completions) ==
  [repo |-> repo, homepage |-> homepage, desc |-> desc, license |-> license,
   bins |-> bins,
   mans |-> [j \in 1..Len(mans) |-> Man_parse(mans[j])],
   deps |-> deps,
   completions |-> [j \in 1..Len(completions) |-> Completion_parse(completions[j])],
   archive_fmt |-> DefaultArchiveFmt, linux_ext |-> S_tar_xz, darwin_ext |-> S_tar_xz]

\* Formula.org
Org(f) == Split(f.repo, "/")[1]

\* Formula.name
Name(f) == Split(f.repo, "/")[2]

\* Formula.disk_path: Formula/<name>.rb, the organization is not part of it
disk_path(f) == <<"F", "o", "r", "m", "u", "l", "a", "/">> \o Name(f) \o <<".", "r", "b">>

\* the version line of a definition document and the literal quoted on it
version_of(content) ==
  LET lines == splitlines(content)
      hits == {j \in 1..Len(lines) : startswith(strip(lines[j]), S_version)}
  IN  IF hits = {} THEN StopIteration
      ELSE LET parts == Split(lines[CHOOSE j \in hits : \A h \in hits : j <= h], "\"")
           IN  IF Len(parts) < 2 THEN IndexError ELSE parts[2]

\* Formula.formula_version, fs the file system: path -> content or None
formula_version(fs, f) ==
  IF fs[disk_path(f)] = None THEN None ELSE version_of(fs[disk_path(f)])

\* an empty version instead of None for a release without tag_name
release_version_empty(release) ==
  IF release = None THEN <<>> ELSE lstrip(release, {"v"})

\* GithubClient.get_latest_release_version, from the decoded release object:
\* None without a tag_name, else the tag without its leading v characters
release_version(release) ==
  IF release = None THEN None ELSE lstrip(release, {"v"})

\* ------------------------------------------------------- HomebrewContext
\* sha256(data).hexdigest(), kept symbolic: one token naming the hashed data
Sha256(data) == <<"sha256:" \o Str(data)>>

\* the body the download host serves for a URL
Body(url) == <<"body:">> \o url

\* HomebrewContext.package_artifact_url
package_artifact_url(f, new_version, arch) ==
  LET ext == IF endswith(arch, S_darwin) THEN f.darwin_ext ELSE f.linux_ext
      fmt == Format(f.archive_fmt,
                    [n \in {"name", "version", "arch", "ext"} |->
                       CASE n = "name" -> Name(f) [] n = "version" -> new_version
                         [] n = "arch" -> arch [] n = "ext" -> ext])
  IN  <<"h", "t", "t", "p", "s", ":", "/", "/", "g", "i", "t", "h", "u", "b", ".", "c", "o", "m", "/">> \o Org(f) \o <<"/">> \o Name(f) \o <<"/", "r", "e", "l", "e", "a", "s", "e", "s", "/", "d", "o", "w", "n", "l", "o", "a", "d", "/">>
        \o new_version \o <<"/">> \o fmt

\* the download done also in a dry run
fetch_and_hash_always(dry, url) == Sha256(Body(url))

\* HomebrewContext.fetch_and_hash when it returns: the digest of the URL
\* string in a dry run, of the downloaded body otherwise
fetch_and_hash(dry, url) == IF dry THEN Sha256(url) ELSE Sha256(Body(url))

\* an unknown keyword rendered as a plain dependency
format_dep_lenient(dep) ==
  LET parts == Split(dep, "#")
  IN  IF Len(parts) > 2 THEN ValueError
      ELSE IF Len(parts) = 1 THEN <<"\"">> \o parts[1] \o <<"\"">>
      ELSE IF parts[2] = S_optional THEN <<"\"">> \o parts[1] \o <<"\"", " ", "=", ">", " ", ":", "o", "p", "t", "i", "o", "n", "a", "l">>
      ELSE IF parts[2] = S_recommended THEN <<"\"">> \o parts[1] \o <<"\"", " ", "=", ">", " ", ":", "r", "e", "c", "o", "m", "m", "e", "n", "d", "e", "d">>
      ELSE <<"\"">> \o parts[1] \o <<"\"">>

\* format_dep of generate_homebrew_formula
format_dep(dep) ==
  LET parts == Split(dep, "#")
  IN  IF Len(parts) > 2 THEN ValueError
      ELSE IF Len(parts) = 1 THEN <<"\"">> \o parts[1] \o <<"\"">>
      ELSE IF parts[2] = S_optional THEN <<"\"">> \o parts[1] \o <<"\"", " ", "=", ">", " ", ":", "o", "p", "t", "i", "o", "n", "a", "l">>
      ELSE IF parts[2] = S_recommended THEN <<"\"">> \o parts[1] \o <<"\"", " ", "=", ">", " ", ":", "r", "e", "c", "o", "m", "m", "e", "n", "d", "e", "d">>
      ELSE ValueError

\* '\n'.join(lines), with a leading '\n' unless empty
Block(lines) ==
  LET b == Join(<<"\n">>, lines) IN IF b = <<>> THEN <<>> ELSE <<"\n">> \o b

\* HomebrewContext.generate_homebrew_formula: the document, or ValueError
generate_homebrew_formula(f, new_version, archives) ==
  IF \E j \in 1..Len(f.deps) : format_dep(f.deps[j]) = ValueError THEN ValueError
  ELSE
  LET depsfmt == Block([j \in 1..Len(f.deps) |-> <<" ", " ", "d", "e", "p", "e", "n", "d", "s", "_", "o", "n", " ">> \o format_dep(f.deps[j])])
      binsfmt == Block([j \in 1..Len(f.bins) |-> <<" ", " ", " ", " ", "b", "i", "n", ".", "i", "n", "s", "t", "a", "l", "l", " ", "\"">> \o f.bins[j] \o <<"\"">>])
      mansfmt == Block([j \in 1..Len(f.mans) |-> <<" ", " ", " ", " ">> \o Man_format(f.mans[j])])
      completionsfmt ==
        Block([j \in 1..Len(f.completions) |-> <<" ", " ", " ", " ">> \o Completion_format(f.completions[j])])
      args == [n \in {"cname", "desc", "homepage", "version", "license", "depsfmt",
                      "binsfmt", "mansfmt", "completionsfmt"} |->
                 CASE n = "cname" -> to_pascal_case(Name(f))
                   [] n = "desc" -> f.desc
                   [] n = "homepage" -> f.homepage
                   [] n = "version" -> new_version
                   [] n = "license" -> f.license
                   [] n = "depsfmt" -> depsfmt
                   [] n = "binsfmt" -> binsfmt
                   [] n = "mansfmt" -> mansfmt
                   [] n = "completionsfmt" -> completionsfmt]
      slotargs(n) ==
        LET slot == CHOOSE s \in SlotSet :
                      n = s \o "_url" \/ n = s \o "_sha256"
        IN  IF n = slot \o "_url" THEN archives[slot].url ELSE archives[slot].sha256
  IN  Format(FORMULA_TEMPLATE,
             [n \in {FORMULA_TEMPLATE[j].n : j \in {h \in 1..Len(FORMULA_TEMPLATE) : FORMULA_TEMPLATE[h].k = "ph"}} |->
                IF n \in DOMAIN args THEN args[n] ELSE slotargs(n)])

\* ------------------------------------------------------- configuration
\* three tables of .tap.toml: two repositories named x under different
\* organizations, and one whose dependency keyword is not a known one
FormulaAX ==
  Formula_from_dict(<<"a", "/", "x">>, <<"h">>, <<"d">>, <<"M", "I", "T">>, <<<<"x">>>>, <<<<"x", ".", "1">>>>, <<>>, <<<<"_", "x">>>>)
FormulaBX ==
  Formula_from_dict(<<"b", "/", "x">>, <<"h">>, <<"d">>, <<"M", "I", "T">>, <<<<"x">>>>, <<>>, <<<<"z", "#", "o", "p", "t", "i", "o", "n", "a", "l">>>>, <<<<"x", ".", "f", "i", "s", "h">>>>)
FormulaAY ==
  Formula_from_dict(<<"a", "/", "y">>, <<"h">>, <<"d">>, <<"M", "I", "T">>, <<<<"y">>>>, <<>>, <<<<"z", "#", "b", "o", "g", "u", "s">>>>, <<>>)
FormulaSet == {FormulaAX, FormulaBX, FormulaAY}

\* the configurations: one formula; two that share a name; a malformed
\* dependency before and after a well-formed formula
Configs ==
  {<<FormulaAX>>, <<FormulaAX, FormulaBX>>, <<FormulaAY, FormulaAX>>,
   <<FormulaAX, FormulaAY>>}

\* what the latest release of a repository carries: no tag_name, or a tag
ReleaseSet == {None, <<"v", "1">>, <<"2", "\"">>}

\* the definition files of the working tree
Paths == {disk_path(f) : f \in FormulaSet}

\* ------------------------------------------------------- state
VARIABLES
  config,          \* TapConfig.formulas, as loaded by load_tap_config
  releases,        \* upstream: the latest release of config[j], per j
  fs,              \* working tree: path -> content of the file, or None
  fs0,             \* history: the working tree when this run started
  dry_run,         \* DRY_RUN is set in the environment of this run
  run,             \* the number of this run of the process
  pc,              \* where the control thread of update_tap is
  i,               \* the index of the formula being processed
  github_version,  \* the resolved version of formula i
  k,               \* the future being submitted or awaited, 1..4
  futures,         \* the four futures of the pool of update_formula
  formula_text,    \* the rendered formula, between rendering and writing
  bumped,          \* update_tap's list of (name, version)
  full_msg,        \* the commit message
  err,             \* the error that ended the run, "" if none
  outcome,         \* history: per formula Pending, Skipped, UpToDate, Updated
  calls,           \* history: per formula, how often each operation ran in this run
  git,             \* history: how often git commit and git push ran in this run
  prev,            \* history: how the previous run ended, and with which outcomes
  pf               \* the harness of the pure-function checks

engine == <<config, releases, fs, fs0, dry_run, run, pc, i, github_version, k, futures,
            formula_text, bumped, full_msg, err, outcome, calls, git, prev>>
vars == <<engine, pf>>

N == Len(config)
NoArchive == [url |-> <<>>, sha256 |-> <<>>]
NoFutures == [s \in SlotSet |-> [state |-> "unsubmitted", result |-> NoArchive]]
NoCalls == [query |-> 0, read |-> 0, submit |-> 0, get |-> 0, render |-> 0, write |-> 0]
NoGit == [commit |-> 0, push |-> 0]
NoPrev == [ran |-> FALSE, completed |-> FALSE, dry |-> FALSE, outcome |-> <<>>, msg |-> <<>>]
PfOff == [pc |-> "off", formula |-> FormulaAX, version |-> <<>>, text |-> <<>>, out |-> <<>>]

\* the locals of update_tap at the start of a run
Fresh ==
  /\ pc = "loop"
  /\ i = 1
  /\ github_version = None
  /\ k = 1
  /\ futures = NoFutures
  /\ formula_text = <<>>
  /\ bumped = <<>>
  /\ full_msg = <<>>
  /\ err = ""
  /\ outcome = [j \in 1..N |-> "Pending"]
  /\ calls = [j \in 1..N |-> NoCalls]
  /\ git = NoGit

Init ==
  /\ config \in Configs
  /\ releases \in [1..Len(config) -> ReleaseSet]
  /\ fs = [p \in Paths |-> None]
  /\ fs0 = fs
  /\ dry_run \in BOOLEAN
  /\ run = 1
  /\ prev = NoPrev
  /\ pf = PfOff
  /\ Fresh

Count(j, op) == calls' = [calls EXCEPT ![j][op] = @ + 1]
\* the error logged and the loop continued with the next formula
Raise_and_continue(e) == pc' = "loop" /\ err' = e /\ i' = i + 1 /\ outcome' = outcome

\* an exception no handler of update_tap catches, or sys.exit of
\* run_command: the run ends where it is
Raise(e) == pc' = "fatal" /\ err' = e /\ UNCHANGED <<i, outcome>>
\* the for loop of update_tap moves on to the next formula
Continue(o) ==
  /\ outcome' = [outcome EXCEPT ![i] = o]
  /\ i' = i + 1
  /\ pc' = "loop"

\* the loop left after its first formula
loop_done_early(i_, n) == i_ > 1

\* the for loop of update_tap, line 482, has gone through config.formulas
loop_done(i_, n) == i_ = n + 1

\* update_tap, lines 485-489: formula.github_version; the request raises, or
\* the release has no tag_name (skip), or it resolves a version
ReleaseQuery ==
  /\ pc = "loop" /\ ~loop_done(i, N)
  /\ Count(i, "query")
  /\ \/ /\ Raise("UpstreamUnavailable")
        /\ UNCHANGED github_version
     \/ /\ release_version(releases[i]) = None
        /\ Continue("Skipped")
        /\ UNCHANGED <<github_version, err>>
     \/ /\ release_version(releases[i]) # None
        /\ github_version' = release_version(releases[i])
        /\ pc' = "ctx"
        /\ UNCHANGED <<i, outcome, err>>
  /\ UNCHANGED <<config, releases, fs, fs0, dry_run, run, k, futures, formula_text, bumped,
                 full_msg, git, prev, pf>>

\* the guard lost: the context is built although the versions are equal
up_to_date_never(formula_version_, github_version_) == FALSE

\* HomebrewContext.__init__, line 338: the test that raises VersionUpToDate
up_to_date(formula_version_, github_version_) == formula_version_ = github_version_

\* HomebrewContext.__init__ and the try of update_tap: read the declared
\* version; equal to the resolved one raises VersionUpToDate
NewContext ==
  /\ pc = "ctx"
  /\ Count(i, "read")
  /\ LET declared == formula_version(fs, config[i])
     IN  IF declared \in Exceptions
         THEN Raise("formula_version") /\ UNCHANGED k
         ELSE IF up_to_date(declared, github_version)
         THEN Continue("UpToDate") /\ UNCHANGED <<err, k>>
         ELSE pc' = "submit" /\ k' = 1 /\ UNCHANGED <<i, outcome, err>>
  /\ UNCHANGED <<config, releases, fs, fs0, dry_run, run, github_version, futures,
                 formula_text, bumped, full_msg, git, prev, pf>>

\* update_formula, lines 383-386: executor.submit, one future after the other
Submit ==
  /\ pc = "submit"
  /\ futures' = [futures EXCEPT ![Slots[k]].state = "running"]
  /\ Count(i, "submit")
  /\ IF k = 4 THEN pc' = "result" /\ k' = 1 ELSE pc' = pc /\ k' = k + 1
  /\ UNCHANGED <<config, releases, fs, fs0, dry_run, run, i, github_version, formula_text,
                 bumped, full_msg, err, outcome, git, prev, pf>>

\* the GET tried again after it raised
Worker_retry(s) ==
  /\ futures[s].state = "running"
  /\ LET url == package_artifact_url(config[i], github_version, Arch(s))
         done == [state |-> "done",
                  result |-> [url |-> url, sha256 |-> fetch_and_hash(dry_run, url)]]
     IN  \/ /\ dry_run
            /\ futures' = [futures EXCEPT ![s] = done]
            /\ UNCHANGED calls
         \/ /\ ~dry_run
            /\ Count(i, "get")
            /\ \/ futures' = [futures EXCEPT ![s] = done]
               \/ futures' = futures
  /\ UNCHANGED <<config, releases, fs, fs0, dry_run, run, pc, i, github_version, k,
                 formula_text, bumped, full_msg, err, outcome, git, prev, pf>>

\* get_archive on a pool thread: fetch_and_hash returns a digest, or (not in
\* a dry run) the GET raises
Worker(s) ==
  /\ futures[s].state = "running"
  /\ LET url == package_artifact_url(config[i], github_version, Arch(s))
         done == [state |-> "done",
                  result |-> [url |-> url, sha256 |-> fetch_and_hash(dry_run, url)]]
     IN  \/ /\ dry_run
            /\ futures' = [futures EXCEPT ![s] = done]
            /\ UNCHANGED calls
         \/ /\ ~dry_run
            /\ Count(i, "get")
            /\ \/ futures' = [futures EXCEPT ![s] = done]
               \/ futures' = [futures EXCEPT ![s].state = "raised"]
  /\ UNCHANGED <<config, releases, fs, fs0, dry_run, run, pc, i, github_version, k,
                 formula_text, bumped, full_msg, err, outcome, git, prev, pf>>

\* the exception of the worker swallowed
raises_never(future) == FALSE

\* Future.result() re-raises the exception of the worker
raises(future) == future.state = "raised"

\* a result awaited until the worker has returned, also when it raised
result_ready_returned(future) == future.state = "done"

\* a result taken without waiting for the worker
result_ready_always(future) == TRUE

\* Future.result() blocks until the worker has returned or raised
result_ready(future) == future.state \in {"done", "raised"}

\* update_formula, lines 387-390: future.result() in slot order; a raised
\* future re-raises and leaves the with block
Result ==
  /\ pc = "result"
  /\ result_ready(futures[Slots[k]])
  /\ IF raises(futures[Slots[k]])
     THEN pc' = "exit_pool" /\ err' = "FetchFailed" /\ k' = k
     ELSE IF k = 4 THEN pc' = "exit_pool" /\ UNCHANGED <<err, k>>
     ELSE pc' = pc /\ k' = k + 1 /\ err' = err
  /\ UNCHANGED <<config, releases, fs, fs0, dry_run, run, i, github_version, futures,
                 formula_text, bumped, full_msg, outcome, calls, git, prev, pf>>

\* the pool shut down without waiting for its workers
ExitPool_nowait ==
  /\ pc = "exit_pool"
  /\ IF err = "" THEN pc' = "render" /\ UNCHANGED <<err, i, outcome>> ELSE Raise(err)
  /\ UNCHANGED <<config, releases, fs, fs0, dry_run, run, github_version, k, futures,
                 formula_text, bumped, full_msg, calls, git, prev, pf>>

\* the end of the with block: ThreadPoolExecutor.__exit__ waits for every
\* worker, then the body's exception, if any, propagates
ExitPool ==
  /\ pc = "exit_pool"
  /\ \A s \in SlotSet : futures[s].state # "running"
  /\ IF err = "" THEN pc' = "render" /\ UNCHANGED <<err, i, outcome>> ELSE Raise(err)
  /\ UNCHANGED <<config, releases, fs, fs0, dry_run, run, github_version, k, futures,
                 formula_text, bumped, full_msg, calls, git, prev, pf>>

\* update_formula, lines 391-397: generate_homebrew_formula
Render ==
  /\ pc = "render"
  /\ Count(i, "render")
  /\ LET text == generate_homebrew_formula(config[i], github_version,
                                           [s \in SlotSet |-> futures[s].result])
     IN  IF text = ValueError
         THEN Raise("ConfigurationError") /\ UNCHANGED formula_text
         ELSE pc' = "write" /\ formula_text' = text /\ UNCHANGED <<err, i, outcome>>
  /\ UNCHANGED <<config, releases, fs, fs0, dry_run, run, github_version, k, futures,
                 bumped, full_msg, git, prev, pf>>

\* update_formula, lines 398-405, and update_tap, lines 497-498: write the
\* file unless this is a dry run, then bumped.append
Write ==
  /\ pc = "write"
  /\ IF dry_run
     THEN UNCHANGED <<fs, calls>>
     ELSE /\ fs' = [fs EXCEPT ![disk_path(config[i])] = formula_text]
          /\ Count(i, "write")
  /\ bumped' = Append(bumped, <<Name(config[i]), github_version>>)
  /\ Continue("Updated")
  /\ futures' = NoFutures
  /\ formula_text' = <<>>
  /\ UNCHANGED <<config, releases, fs0, dry_run, run, github_version, k, full_msg, err,
                 git, prev, pf>>

\* a message that names only the last bumped formula
commit_message_last(b) ==
  LET e == b[Len(b)] IN <<"B", "u", "m", "p", " ", "f", "o", "r", "m", "u", "l", "a", "s", ":", " ">> \o e[1] \o <<" ", "t", "o", " ">> \o e[2]

\* the commit message of update_tap, lines 503-504
commit_message(b) ==
  <<"B", "u", "m", "p", " ", "f", "o", "r", "m", "u", "l", "a", "s", ":", " ">> \o Join(<<",", " ">>, [j \in 1..Len(b) |-> b[j][1] \o <<" ", "t", "o", " ">> \o b[j][2]])

\* update_tap, lines 499-508: after the loop
AfterLoop ==
  /\ pc = "loop" /\ loop_done(i, N)
  /\ IF bumped = <<>>
     THEN pc' = "done" /\ UNCHANGED full_msg
     ELSE /\ full_msg' = commit_message(bumped)
          /\ pc' = IF dry_run THEN "git_remote" ELSE "git_add"
  /\ UNCHANGED <<config, releases, fs, fs0, dry_run, run, i, github_version, k, futures,
                 formula_text, bumped, err, outcome, calls, git, prev, pf>>

\* run_command and get_stdout: the command exits 0, or the process exits
\* with the command's status
Command(next) ==
  \/ pc' = next /\ UNCHANGED <<err, i, outcome>>
  \/ Raise("git")

\* update_tap, line 509: git add .
GitAdd ==
  /\ pc = "git_add"
  /\ Command("git_commit")
  /\ UNCHANGED <<config, releases, fs, fs0, dry_run, run, github_version, k, futures,
                 formula_text, bumped, full_msg, calls, git, prev, pf>>

\* update_tap, lines 510-521: git commit -m full_msg
GitCommit ==
  /\ pc = "git_commit"
  /\ git' = [git EXCEPT !.commit = @ + 1]
  /\ Command("git_remote")
  /\ UNCHANGED <<config, releases, fs, fs0, dry_run, run, github_version, k, futures,
                 formula_text, bumped, full_msg, calls, prev, pf>>

\* update_tap, lines 526-541: git remote -v
GitRemote ==
  /\ pc = "git_remote"
  /\ Command("git_push")
  /\ UNCHANGED <<config, releases, fs, fs0, dry_run, run, github_version, k, futures,
                 formula_text, bumped, full_msg, calls, git, prev, pf>>

\* update_tap, lines 542-552: git push, only logged in a dry run
GitPush ==
  /\ pc = "git_push"
  /\ IF dry_run
     THEN pc' = "done" /\ UNCHANGED <<git, err, i, outcome>>
     ELSE git' = [git EXCEPT !.push = @ + 1] /\ Command("done")
  /\ UNCHANGED <<config, releases, fs, fs0, dry_run, run, github_version, k, futures,
                 formula_text, bumped, full_msg, calls, prev, pf>>

\* main, once more: the process is run again over the same working tree and
\* configuration, with or without DRY_RUN, the releases unchanged
Restart ==
  /\ pc \in {"done", "fatal"}
  /\ run < MaxRuns
  /\ run' = run + 1
  /\ prev' = [ran |-> TRUE, completed |-> pc = "done", dry |-> dry_run,
               outcome |-> IF pc = "done" THEN outcome ELSE <<>>,
               msg |-> IF pc = "done" THEN full_msg ELSE <<>>]
  /\ UNCHANGED <<config, releases, fs, pf>>
  /\ fs0' = fs
  /\ dry_run' \in BOOLEAN
  /\ pc' = "loop"
  /\ i' = 1
  /\ github_version' = None
  /\ k' = 1
  /\ futures' = NoFutures
  /\ formula_text' = <<>>
  /\ bumped' = <<>>
  /\ full_msg' = <<>>
  /\ err' = ""
  /\ outcome' = [j \in 1..N |-> "Pending"]
  /\ calls' = [j \in 1..N |-> NoCalls]
  /\ git' = NoGit

Next ==
  \/ ReleaseQuery
  \/ NewContext
  \/ Submit
  \/ \E s \in SlotSet : Worker(s)
  \/ Result
  \/ ExitPool
  \/ Render
  \/ Write
  \/ AfterLoop
  \/ GitAdd
  \/ GitCommit
  \/ GitRemote
  \/ GitPush
  \/ Restart

Spec == Init /\ [][Next]_vars

\* ------------------------------------------------------- rendering alone
\* the characters of the version strings rendered, and the strings of at
\* most MaxVerLen of them
VersionChars == {"v", "1", ".", "\""}
Versions == UNION {[1..m -> VersionChars] : m \in 0..MaxVerLen}

\* the engine at rest while a pure function is exercised
EngineOff ==
  /\ config = <<FormulaAX>>
  /\ releases = <<None>>
  /\ fs = [p \in Paths |-> None]
  /\ fs0 = fs
  /\ dry_run = TRUE
  /\ run = 1
  /\ prev = NoPrev
  /\ pc = "off"
  /\ i = 1
  /\ github_version = None
  /\ k = 1
  /\ futures = NoFutures
  /\ formula_text = <<>>
  /\ bumped = <<>>
  /\ full_msg = <<>>
  /\ err = ""
  /\ outcome = <<"Pending">>
  /\ calls = <<NoCalls>>
  /\ git = NoGit

InitRender ==
  /\ EngineOff
  /\ pf \in {[pc |-> "input", formula |-> f, version |-> v, text |-> <<>>, out |-> <<>>] :
               f \in FormulaSet, v \in Versions}

\* the four archives of update_formula in a dry run
DryArchives(f, version) ==
  [s \in SlotSet |->
     [url |-> package_artifact_url(f, version, Arch(s)),
      sha256 |-> fetch_and_hash(TRUE, package_artifact_url(f, version, Arch(s)))]]

\* generate_homebrew_formula for pf.formula at pf.version
PfRender ==
  /\ pf.pc = "input"
  /\ LET text == generate_homebrew_formula(pf.formula, pf.version,
                                           DryArchives(pf.formula, pf.version))
     IN  pf' = IF text = ValueError
               THEN [pf EXCEPT !.pc = "error"]
               ELSE [pf EXCEPT !.pc = "rendered", !.text = text]
  /\ UNCHANGED engine

\* formula_version on a working tree that holds the rendered document
PfExtract ==
  /\ pf.pc = "rendered"
  /\ pf' = [pf EXCEPT !.pc = "extracted",
                      !.out = formula_version(
                                [p \in Paths |-> IF p = disk_path(pf.formula)
                                                 THEN pf.text ELSE None],
                                pf.formula)]
  /\ UNCHANGED engine

NextRender == PfRender \/ PfExtract

SpecRender == InitRender /\ [][NextRender]_vars

\* ------------------------------------------------------- claims
\* the indices of the formulas with outcome o, and their number
WithOutcome(o) == {j \in 1..N : outcome[j] = o}

\* C1: a formula whose declared version, as read from its definition file,
\* equals the resolved version gets outcome UpToDate and the loop moves on:
\* no fetch is submitted or run for it, nothing is rendered or written, the
\* working tree and the list of bumped formulas stay as they are, and a
\* formula that is UpToDate never has any of these later in the run.
C1_IdempotencyGuard ==
  /\ [](/\ \A j \in WithOutcome("UpToDate") :
             /\ calls[j].read = 1
             /\ calls[j].submit = 0 /\ calls[j].get = 0
             /\ calls[j].render = 0 /\ calls[j].write = 0
        /\ Len(bumped) = Cardinality(WithOutcome("Updated")))
  /\ [][(pc = "ctx" /\ formula_version(fs, config[i]) = github_version)
          => /\ outcome' = [outcome EXCEPT ![i] = "UpToDate"]
             /\ i' = i + 1 /\ pc' = "loop"
             /\ fs' = fs /\ bumped' = bumped /\ futures' = NoFutures /\ git' = git
             /\ calls'[i].submit = 0 /\ calls'[i].get = 0
             /\ calls'[i].render = 0 /\ calls'[i].write = 0]_vars

\* a run in which a formula was found up to date and a later formula updated
C1_Witness ==
  \E j \in 1..N : outcome[j] = "UpToDate" /\ formula_version(fs, config[j]) # None
                  /\ pc = "done"

\* the futures whose worker raised
Raised == {s \in SlotSet : futures[s].state = "raised"}

\* the version resolved for formula j, and whether j was stale when the run
\* started: a version is resolved and the declared one differs from it
Resolved(j) == release_version(releases[j])
Stale0(j) == Resolved(j) # None /\ formula_version(fs0, config[j]) # Resolved(j)

\* the (name, version) pairs of the formulas of S, in configuration order
Entries(S) ==
  [m \in 1..Cardinality(S) |-> <<Name(config[Nth(S, m)]), Resolved(Nth(S, m))>>]

\* the aggregate message that names exactly the formulas of S
ExpectedMessage(S) ==
  <<"B", "u", "m", "p", " ", "f", "o", "r", "m", "u", "l", "a", "s", ":", " ">> \o
    Join(<<",", " ">>, [m \in 1..Cardinality(S) |-> Entries(S)[m][1] \o <<" ", "t", "o", " ">> \o Entries(S)[m][2]])

\* the URL of slot s for formula j at its resolved version
UrlOf(j, s) == package_artifact_url(config[j], Resolved(j), Arch(s))

\* C2: when a fetch of the formula being processed has raised, whichever of
\* the four it is and whatever the other workers did, the control thread is
\* still submitting or collecting, or has ended the run with FetchFailed: the
\* formula is never rendered or written and keeps no outcome.
C2_FetchFailureAllOrNothing ==
  Raised # {} =>
    /\ ~dry_run
    /\ pc \in {"submit", "result", "exit_pool", "fatal"}
    /\ pc = "fatal" => err = "FetchFailed"
    /\ outcome[i] = "Pending"
    /\ calls[i].render = 0 /\ calls[i].write = 0
    /\ formula_text = <<>>
    /\ bumped = Entries(WithOutcome("Updated"))
    /\ git = NoGit

\* the run has ended on the failure of the last fetch alone
C2_Witness ==
  /\ pc = "fatal"
  /\ Raised = {"linux_x86_64"}
  /\ \A s \in SlotSet \ Raised : futures[s].state = "done"

\* C3: in a dry run the working tree stays as the run found it, no archive
\* is downloaded, git commit and git push are never run; every finished
\* fetch carries the digest of its URL string; every formula processed is
\* Updated exactly when it was stale, and the message built after the loop
\* names every stale formula with its resolved version.
C3_DryRunNoSideEffects ==
  dry_run =>
    /\ fs = fs0
    /\ \A j \in 1..N : calls[j].write = 0 /\ calls[j].get = 0
    /\ git = NoGit
    /\ Raised = {}
    /\ \A s \in SlotSet :
         futures[s].state = "done" =>
           futures[s].result = [url |-> UrlOf(i, s), sha256 |-> Sha256(UrlOf(i, s))]
    /\ pc \in {"render", "write"} => \A s \in SlotSet : futures[s].state = "done"
    /\ \A j \in 1..N : outcome[j] # "Pending" => (outcome[j] = "Updated" <=> Stale0(j))
    /\ bumped = Entries(WithOutcome("Updated"))
    /\ pc \in {"git_remote", "git_push"} =>
         full_msg = ExpectedMessage({j \in 1..N : Stale0(j)})

\* a dry run ended after reporting a formula whose file declares another version
C3_Witness ==
  /\ dry_run /\ pc = "done"
  /\ \E j \in 1..N : /\ outcome[j] = "Updated"
                     /\ formula_version(fs0, config[j]) \notin {None, Resolved(j)}

\* C4 (as claimed): after a run without DRY_RUN that completed, the next run
\* submits no fetch, downloads and writes nothing, and runs no git commit or
\* git push.
C4_SecondRunNoOp ==
  (prev.ran /\ prev.completed /\ ~prev.dry) =>
    /\ \A j \in 1..N : calls[j].submit = 0 /\ calls[j].get = 0 /\ calls[j].write = 0
    /\ fs = fs0
    /\ git = NoGit

\* C5 (as claimed): the version extracted from a rendered document is the
\* version string that was rendered.
C5_RenderRoundTrip == pf.pc = "extracted" => pf.out = pf.version

\* C6: when git commit is run, its message is "Bump formulas: " followed by
\* "name to version" for exactly the formulas with outcome Updated, once
\* each, in configuration order, with the version resolved for it; each of
\* them was written once, and its file, unless a later formula of the same
\* name overwrote it, is the document rendered for that version.
C6_CommitMessage ==
  (pc = "git_commit" \/ git.commit > 0) =>
    /\ full_msg = ExpectedMessage(WithOutcome("Updated"))
    /\ WithOutcome("Pending") = {}
    /\ \A j \in WithOutcome("Updated") :
         /\ calls[j].write = 1
         /\ (\A h \in WithOutcome("Updated") :
               h > j => disk_path(config[h]) # disk_path(config[j]))
            => fs[disk_path(config[j])] =
                 generate_homebrew_formula(config[j], Resolved(j),
                   [s \in SlotSet |->
                      [url |-> UrlOf(j, s), sha256 |-> Sha256(Body(UrlOf(j, s)))]])

\* git commit is run after one formula was updated and another was not
C6_Witness ==
  /\ pc = "git_commit"
  /\ Cardinality(WithOutcome("Updated")) = 1
  /\ WithOutcome("UpToDate") \cup WithOutcome("Skipped") # {}

\* C7: git commit and git push each run at most once in a run, and only
\* when every formula has its outcome and no fetch is in flight; git push
\* runs only after git commit has run.
C7_CommitOnceAfterAll ==
  /\ git.commit <= 1 /\ git.push <= 1
  /\ (pc \in {"git_add", "git_commit", "git_remote", "git_push"} \/ git # NoGit) =>
       /\ WithOutcome("Pending") = {}
       /\ futures = NoFutures
  /\ git.push = 1 => git.commit = 1
  /\ (pc = "git_push" /\ ~dry_run) => git.commit = 1

\* both commands have run in a run over two formulas
C7_Witness == pc = "done" /\ git.push = 1 /\ git.commit = 1 /\ N = 2

\* C8: once the release query or a fetch of formula i has ended the run, no
\* later formula has been queried, read, fetched, rendered or written, no
\* git command has run, and until the process is started again nothing but
\* the downloads of formula i still in flight goes on.
C8_FailFast ==
  /\ [](err \in {"UpstreamUnavailable", "FetchFailed"} =>
          /\ \A j \in (i + 1)..N : calls[j] = NoCalls /\ outcome[j] = "Pending"
          /\ git = NoGit)
  /\ [][(err \in {"UpstreamUnavailable", "FetchFailed"}) =>
          (\/ run' = run + 1
           \/ /\ i' = i /\ git' = git /\ fs' = fs /\ outcome' = outcome /\ bumped' = bumped
              /\ pc' \in {"exit_pool", "fatal"}
              /\ \A j \in 1..N : calls'[j] = [calls[j] EXCEPT !.get = calls'[j].get])
       ]_vars

\* the first of two formulas failed to fetch and the run has ended
C8_Witness == pc = "fatal" /\ err = "FetchFailed" /\ i = 1 /\ N = 2

\* C9: a release without tag_name, when the query does not fail, makes the
\* formula Skipped and moves the loop on: the declared version is not read,
\* nothing is fetched, the working tree and the list of bumped formulas are
\* unchanged, and a skipped formula is never touched later in the run.
C9_SkipOnAbsentVersion ==
  /\ [](\A j \in WithOutcome("Skipped") :
          releases[j] = None /\ calls[j] = [NoCalls EXCEPT !.query = 1])
  /\ [][(pc = "loop" /\ i <= N /\ releases[i] = None /\ err' = "")
          => /\ outcome' = [outcome EXCEPT ![i] = "Skipped"]
             /\ i' = i + 1 /\ pc' = "loop"
             /\ fs' = fs /\ bumped' = bumped /\ futures' = futures /\ git' = git
             /\ calls'[i] = [NoCalls EXCEPT !.query = 1]]_vars

\* a formula was skipped and the next one updated
C9_Witness ==
  \E j \in 1..(N - 1) : outcome[j] = "Skipped" /\ outcome[j + 1] = "Updated"

\* C10 (as claimed): when the malformed dependency ends the run, no fetch of
\* that formula has been submitted and no definition written.
C10_ConfigErrorBeforeFetch ==
  err = "ConfigurationError" =>
    /\ calls[i].submit = 0 /\ calls[i].get = 0
    /\ calls[i].write = 0

\* ------------------------------------------------------- resolving alone
\* the longest tag_name of the releases resolved
MaxTagLen == 3

\* the tag_name values of a release: strings of at most MaxTagLen characters
Tags == UNION {[1..m -> VersionChars] : m \in 0..MaxTagLen}

InitResolve ==
  /\ EngineOff
  /\ pf \in {[pc |-> "release", formula |-> FormulaAX, version |-> t, text |-> <<>>,
              out |-> <<>>] : t \in Tags \cup {None}}

\* get_latest_release_version on a release whose tag_name is pf.version
PfResolve ==
  /\ pf.pc = "release"
  /\ pf' = [pf EXCEPT !.pc = "resolved", !.out = release_version(pf.version)]
  /\ UNCHANGED engine

NextResolve == PfResolve

SpecResolve == InitResolve /\ [][NextResolve]_vars

\* C11 (as claimed): the resolved version is the tag without its first
\* character when the tag starts with v, and the tag itself otherwise.
C11_StripOneLeadingV ==
  (pf.pc = "resolved" /\ pf.version # None) =>
    pf.out = IF pf.version # <<>> /\ pf.version[1] = "v"
             THEN Tail(pf.version) ELSE pf.version

\* ------------------------------------------------ dependencies alone
\* the longest depends list rendered
MaxDeps == 2

\* depends entries: plain, optional, recommended, an empty keyword, an
\* unknown keyword, a keyword in another case, a second '#'
DepSet ==
  {<<"z">>, <<"w">>, <<"z", "#", "o", "p", "t", "i", "o", "n", "a", "l">>, <<"z", "#", "r", "e", "c", "o", "m", "m", "e", "n", "d", "e", "d">>, <<"z", "#">>, <<"z", "#", "b", "o", "g", "u", "s">>, <<"z", "#", "O", "p", "t", "i", "o", "n", "a", "l">>,
   <<"z", "#", "o", "p", "t", "i", "o", "n", "a", "l", "#">>, <<"z", "#", "w", "#", "r", "e", "c", "o", "m", "m", "e", "n", "d", "e", "d">>}

DepLists == UNION {[1..m -> DepSet] : m \in 0..MaxDeps}

InitDeps ==
  /\ EngineOff
  /\ pf \in {[pc |-> "deps", formula |-> [FormulaAX EXCEPT !.deps = d],
              version |-> <<"1">>, text |-> <<>>, out |-> <<>>] : d \in DepLists}

\* generate_homebrew_formula for the formula of pf
PfDeps ==
  /\ pf.pc = "deps"
  /\ pf' = [pf EXCEPT !.pc = "deps_done",
              !.text = generate_homebrew_formula(pf.formula, pf.version,
                                                 DryArchives(pf.formula, pf.version))]
  /\ UNCHANGED engine

NextDeps == PfDeps

SpecDeps == InitDeps /\ [][NextDeps]_vars

\* what the claim expects of one depends entry: the rendered line, or
\* ValueError, read from the entry by the positions of '#'
C12_Line(dep) ==
  LET P == Positions(dep, "#")
      p == CHOOSE x \in P : TRUE
      name == SubSeq(dep, 1, p - 1)
      suffix == SubSeq(dep, p + 1, Len(dep))
  IN  IF P = {} THEN <<" ", " ", "d", "e", "p", "e", "n", "d", "s", "_", "o", "n", " ", "\"">> \o dep \o <<"\"">>
      ELSE IF Cardinality(P) > 1 THEN ValueError
      ELSE IF suffix = <<"o", "p", "t", "i", "o", "n", "a", "l">> THEN <<" ", " ", "d", "e", "p", "e", "n", "d", "s", "_", "o", "n", " ", "\"">> \o name \o <<"\"", " ", "=", ">", " ", ":", "o", "p", "t", "i", "o", "n", "a", "l">>
      ELSE IF suffix = <<"r", "e", "c", "o", "m", "m", "e", "n", "d", "e", "d">> THEN <<" ", " ", "d", "e", "p", "e", "n", "d", "s", "_", "o", "n", " ", "\"">> \o name \o <<"\"", " ", "=", ">", " ", ":", "r", "e", "c", "o", "m", "m", "e", "n", "d", "e", "d">>
      ELSE ValueError

C12_IsDepLine(line) == startswith(line, <<" ", " ", "d", "e", "p", "e", "n", "d", "s", "_", "o", "n">>)

\* C12: a depends entry without '#' is rendered as a plain depends_on line,
\* name#optional and name#recommended with their marker, every other entry
\* makes the rendering fail with ValueError and no document; the depends_on
\* lines of the document are those of the entries, in order, and an empty
\* list adds no line to the document.
C12_DependencyRendering ==
  pf.pc = "deps_done" =>
    LET deps == pf.formula.deps
        base == splitlines(generate_homebrew_formula(FormulaAX, pf.version,
                                                     DryArchives(FormulaAX, pf.version)))
    IN  IF \E j \in 1..Len(deps) : C12_Line(deps[j]) = ValueError
        THEN pf.text = ValueError
        ELSE /\ pf.text # ValueError
             /\ SelectSeq(splitlines(pf.text), C12_IsDepLine)
                  = [j \in 1..Len(deps) |-> C12_Line(deps[j])]
             /\ Len(splitlines(pf.text)) = Len(base) + Len(deps)
             /\ SelectSeq(splitlines(pf.text), LAMBDA l : ~C12_IsDepLine(l)) = base

C12_Witness ==
  /\ pf.pc = "deps_done"
  /\ pf.formula.deps = <<<<"z", "#", "o", "p", "t", "i", "o", "n", "a", "l">>, <<"w">>>>
  /\ pf.text # ValueError

\* the futures of the formula being processed whose worker has returned or
\* raised, and whether a request of this run has failed
Finished == {s \in SlotSet : futures[s].state \in {"done", "raised"}}
RequestFailed == err = "UpstreamUnavailable" \/ Raised # {}

\* C13 (as claimed): within a run a release query is issued only for a
\* formula not queried before and a GET only by a worker that has not
\* requested before, and once a request has failed no query and no GET is
\* issued any more.
C13_NoRequestAfterFailure ==
  [][(run' = run) =>
       \A j \in 1..N :
         /\ (calls'[j].query > calls[j].query) => (calls[j].query = 0 /\ ~RequestFailed)
         /\ (calls'[j].get > calls[j].get) =>
              (calls'[j].get = Cardinality(Finished') /\ ~RequestFailed)
    ]_vars

\* C13 (amended): within a run a release query is issued only for a formula
\* not queried before and never after a failed request; a GET is issued only
\* by a worker of the formula being processed that has not requested before,
\* at most four per formula, and the only requests issued after a failed GET
\* are the first GETs of the other workers of the same formula.
C13_NoRetry ==
  [][(run' = run) =>
       \A j \in 1..N :
         /\ (calls'[j].query > calls[j].query) => (calls[j].query = 0 /\ ~RequestFailed)
         /\ (calls'[j].get > calls[j].get) =>
              /\ j = i /\ i' = i
              /\ err # "UpstreamUnavailable"
              /\ calls'[j].get = calls[j].get + 1
              /\ calls'[j].get = Cardinality(Finished')
              /\ calls'[j].get <= 4
    ]_vars

C13_Witness ==
  /\ pc = "fatal" /\ err = "FetchFailed"
  /\ futures["mac_aarch64"].state = "raised"
  /\ calls[i].get = 4 /\ calls[i].query = 1

\* C14: for every formula the release query comes before the read of the
\* declared version, the read before the four submits, the four submits and
\* the completion of the four workers before the rendering, the rendering
\* before the write; when the control thread has left the pool without an
\* error, renders or writes, each of the four futures holds the result of
\* its own URL and no worker is running; an Updated formula has had each of
\* these steps exactly once (the write only when this is no dry run).
C14_PerProjectOrdering ==
  /\ \A j \in 1..N :
       /\ (calls[j].read > 0) => (calls[j].query = 1)
       /\ (calls[j].submit > 0) => (calls[j].read = 1)
       /\ (calls[j].get > 0) => (calls[j].get <= calls[j].submit)
       /\ (calls[j].render > 0) =>
            (calls[j].submit = 4 /\ (~dry_run => calls[j].get = 4))
       /\ (calls[j].write > 0) => (calls[j].render = 1)
       /\ (outcome[j] = "Updated") =>
            /\ calls[j].query = 1 /\ calls[j].read = 1 /\ calls[j].submit = 4
            /\ calls[j].render = 1
            /\ ~dry_run => (calls[j].get = 4 /\ calls[j].write = 1)
  /\ (pc \in {"render", "write"} \/ (pc = "exit_pool" /\ err = "")) =>
       \A s \in SlotSet :
         /\ futures[s].state = "done"
         /\ futures[s].result.url = UrlOf(i, s)
  /\ (pc = "write") => (calls[i].render = 1 /\ calls[i].write = 0)

C14_Witness ==
  /\ ~dry_run
  /\ outcome[1] = "Updated"
  /\ calls[1].write = 1 /\ calls[1].get = 4

\* the futures whose worker is in flight
Running == {s \in SlotSet : futures[s].state = "running"}

\* C15: at most four workers are in flight and no formula gets more than
\* four submits; while a worker is in flight, also after another worker of
\* the same formula has raised, the control thread is inside the pool of the
\* formula being processed: that formula has no outcome yet, every earlier
\* formula has one, and no later formula has had a release query, a read, a
\* submit or a GET.
C15_ProjectLocalParallelism ==
  /\ Cardinality(Running) <= 4
  /\ \A j \in 1..N : calls[j].submit <= 4 /\ calls[j].get <= 4
  /\ (Running # {}) =>
       /\ pc \in {"submit", "result", "exit_pool"}
       /\ i \in 1..N
       /\ outcome[i] = "Pending"
       /\ Cardinality(Running) <= calls[i].submit
       /\ \A j \in 1..N : (j < i) => (outcome[j] # "Pending")
       /\ \A j \in 1..N : (j > i) => (calls[j] = NoCalls)

C15_Witness ==
  /\ pc = "exit_pool"
  /\ Raised # {}
  /\ Running # {}
  /\ i < N

\* the digest the claim expects in slot s of formula j: of the content of
\* the slot's own URL, or in a dry run, where nothing is downloaded, the
\* placeholder digest of that URL
C16_Digest(j, s) == IF dry_run THEN Sha256(UrlOf(j, s)) ELSE Sha256(Body(UrlOf(j, s)))

\* the platform block of the document as the claim expects it for formula j
C16_Block(j) ==
  LET u(s) == <<" ", " ", " ", " ", " ", " ", "u", "r", "l", " ", "\"">> \o UrlOf(j, s) \o <<"\"">>
      d(s) == <<" ", " ", " ", " ", " ", " ", "s", "h", "a", "2", "5", "6", " ", "\"">> \o C16_Digest(j, s) \o <<"\"">>
  IN  << <<" ", " ", "i", "f", " ", "O", "S", ".", "m", "a", "c", "?">>,
         <<" ", " ", " ", " ", "o", "n", "_", "i", "n", "t", "e", "l", " ", "d", "o">>, u("mac_x86_64"), d("mac_x86_64"), <<" ", " ", " ", " ", "e", "n", "d">>,
         <<" ", " ", " ", " ", "o", "n", "_", "a", "r", "m", " ", "d", "o">>, u("mac_aarch64"), d("mac_aarch64"), <<" ", " ", " ", " ", "e", "n", "d">>,
         <<" ", " ", "e", "l", "s", "i", "f", " ", "O", "S", ".", "l", "i", "n", "u", "x", "?">>,
         <<" ", " ", " ", " ", "o", "n", "_", "i", "n", "t", "e", "l", " ", "d", "o">>, u("linux_x86_64"), d("linux_x86_64"), <<" ", " ", " ", " ", "e", "n", "d">>,
         <<" ", " ", " ", " ", "o", "n", "_", "a", "r", "m", " ", "d", "o">>, u("linux_aarch64"), d("linux_aarch64"), <<" ", " ", " ", " ", "e", "n", "d">>,
         <<" ", " ", "e", "n", "d">> >>

\* C16: whatever the order in which the four workers completed, the
\* document rendered for a formula is the one document determined by the
\* formula, its resolved version and the mode: its platform block names, for
\* macOS and Linux, Intel and ARM, the URL of that platform with the digest of
\* that URL's content (of the URL itself in a dry run), never another
\* platform's.
C16_CompletionOrderIndifference ==
  (pc = "write") =>
    LET L == splitlines(formula_text)
        B == C16_Block(i)
        m == CHOOSE x \in 1..Len(L) : L[x] = <<" ", " ", "i", "f", " ", "O", "S", ".", "m", "a", "c", "?">>
    IN  /\ github_version = Resolved(i)
        /\ \E x \in 1..Len(L) : L[x] = <<" ", " ", "i", "f", " ", "O", "S", ".", "m", "a", "c", "?">>
        /\ Len(L) >= m + Len(B) - 1
        /\ \A x \in 1..Len(B) : L[m + x - 1] = B[x]
        /\ formula_text =
             generate_homebrew_formula(config[i], Resolved(i),
               [s \in SlotSet |-> [url |-> UrlOf(i, s), sha256 |-> C16_Digest(i, s)]])

C16_Witness ==
  /\ pc = "write"
  /\ ~dry_run
  /\ i = 2

\* C17 (as claimed): a run without DRY_RUN that completes after a completed
\* dry run over the same configuration, the same working tree (the dry run
\* left it as it was) and the same releases gives every formula the outcome
\* the dry run gave it and builds the same commit message.
C17_DryRunSameDecisions ==
  (pc = "done" /\ ~dry_run /\ prev.ran /\ prev.completed /\ prev.dry) =>
    (outcome = prev.outcome /\ full_msg = prev.msg)

\* ------------------------------------------------------- fair scheduling
\* the positions of the control thread of a run
ControlPcs ==
  {"loop", "ctx", "submit", "result", "exit_pool", "render", "write", "git_add",
   "git_commit", "git_remote", "git_push", "done", "fatal"}

\* the control thread can take a step: the run has not ended, and it is not
\* blocked in future.result() or at the end of the with block
ControlReady ==
  /\ pc \notin {"done", "fatal"}
  /\ (pc = "result") => result_ready(futures[Slots[k]])
  /\ (pc = "exit_pool") => (\A s \in SlotSet : futures[s].state # "running")

\* the control thread moves on: every step of update_tap and update_formula
\* changes its position, the future it is at or the formula it is at
ControlMove ==
  /\ ControlReady
  /\ \E p \in ControlPcs, k_ \in 1..4, i_ \in 1..(N + 1) :
       /\ <<p, k_, i_>> # <<pc, k, i>>
       /\ pc' = p /\ k' = k_ /\ i' = i_

\* the worker of future s returns or raises: a step of Worker(s). The first
\* disjunct is a case of the second, written as an assignment so that the
\* enabledness of the step is found without computing the archive.
WorkerReturn(s) ==
  /\ futures[s].state = "running"
  /\ \/ \E st \in {"done", "raised"} : futures' = [futures EXCEPT ![s].state = st]
     \/ /\ futures'[s].state \in {"done", "raised"}
        /\ \A o \in SlotSet \ {s} : futures'[o] = futures[o]

\* every request and command returns and every thread is scheduled: the
\* control thread, when it is not blocked, moves on, and a running worker
\* returns or raises
SpecFair ==
  /\ Spec
  /\ WF_<<pc, k, i>>(ControlMove)
  /\ \A s \in SlotSet : WF_futures(WorkerReturn(s))

\* a run that has ended: every formula has its outcome and, when formulas
\* were bumped outside a dry run, the commit and the push were run; or a
\* fatal error ended it
Terminated ==
  \/ /\ pc = "done"
     /\ \A j \in 1..N : outcome[j] # "Pending"
     /\ (bumped # <<>> /\ ~dry_run) => (git.commit = 1 /\ git.push = 1)
  \/ /\ pc = "fatal"
     /\ err # ""

\* C18: when every request and every command returns and the control thread
\* and the workers are scheduled fairly, a run that has not ended eventually
\* ends: with all formulas processed and the commit and push done, or with a
\* fatal error.
C18_Termination == (pc \notin {"done", "fatal"}) ~> Terminated

C18_Witness ==
  /\ pc = "done"
  /\ git.push = 1
  /\ WithOutcome("Updated") # {}
  /\ WithOutcome("Pending") = {}

\* C19 (as claimed): when a run without DRY_RUN has ended, completed or
\* aborted by a fatal error of a formula (not of a git command), every
\* formula whose definition file was written in the run is in the commit the
\* run made, whose message names it with its version.
C19_WrittenIsCommitted ==
  (~dry_run /\ (pc = "done" \/ (pc = "fatal" /\ err # "git"))) =>
    \A j \in 1..N :
      (calls[j].write > 0) =>
        /\ git.commit = 1
        /\ j \in WithOutcome("Updated")
        /\ full_msg = ExpectedMessage(WithOutcome("Updated"))

\* C20 (as claimed): when a run without DRY_RUN has ended, the version
\* declared in the definition file of every formula that is Updated or
\* UpToDate is the version resolved for it in the run, whatever the file
\* declared before, a higher version included.
C20_DeclaredIsResolved ==
  (~dry_run /\ pc \in {"done", "fatal"}) =>
    \A j \in WithOutcome("Updated") \cup WithOutcome("UpToDate") :
      formula_version(fs, config[j]) = Resolved(j)

\* C21 (as claimed): a step that writes the definition file of a formula
\* writes a file that no other formula of the configuration (another
\* organization/name pair) uses, and leaves the declared version read for
\* every other formula as it was.
C21_OneFilePerProject ==
  [][(pc = "write" /\ calls'[i].write > calls[i].write) =>
       \A j \in 1..N :
         (config[j].repo # config[i].repo) =>
           /\ disk_path(config[j]) # disk_path(config[i])
           /\ formula_version(fs', config[j]) = formula_version(fs, config[j])
    ]_vars
====
